---- MODULE Spec2Model ----
(***************************************************************************)
(* Model of the live-class admission controller (startBatchClass,          *)
(* joinBatchClass, validateClassTime in controllers/dyte/dyte.controller)  *)
(* and of the reconciliation sweep (syncDyteSessions in                    *)
(* controllers/finance.controller).                                        *)
(*                                                                         *)
(* Every `await` of a handler is a point where another request may run,    *)
(* so each handler is a small process whose pc names the await it is       *)
(* parked on.  Code between two awaits runs atomically (one event-loop     *)
(* turn) and is one action.                                                *)
(***************************************************************************)
EXTENDS Integers, Sequences, FiniteSets, TLC

(***************************************************************************)
(* Values                                                                  *)
(***************************************************************************)
Null == "null"                      \* JS null / undefined, for text fields
None == <<>>                        \* JS null / undefined, for structured fields
Some(x) == <<x>>
DytePlatform == "Dyte"              \* the configured provider tag

SecondsPerDay == 24 * 3600
GraceSeconds == 900                 \* subtract(15, 'minutes')
MinDurationSeconds == 60            \* durationSeconds < 60 is skipped

DayNames == <<"Sunday", "Monday", "Tuesday", "Wednesday", "Thursday",
              "Friday", "Saturday">>

(***************************************************************************)
(* moment.js, as far as validateClassTime uses it.  An instant is a        *)
(* calendar day number (day 0 is a Sunday) and a second of that day.       *)
(***************************************************************************)
Instant(d, s) == [day |-> d, tod |-> s]
Abs(i) == i.day * SecondsPerDay + i.tod
(* A slip that takes "before" to include the same instant.                 *)
isBefore_OrSame(a, b) == Abs(a) <= Abs(b)

isBefore(a, b) == Abs(a) < Abs(b)
isAfter(a, b) == Abs(a) > Abs(b)
startOfDay(i) == Instant(i.day, 0)
endOfDay(i) == Instant(i.day, SecondsPerDay - 1)
formatDddd(i) == DayNames[(i.day % 7) + 1]
subtractSeconds(i, n) ==
    LET a == Abs(i) - n IN Instant(a \div SecondsPerDay, a % SecondsPerDay)

(* A time-of-day text such as "10:00 AM" or "14:30" is kept as its fields:  *)
(* hour and minute as written and the meridiem ("" when absent).           *)
TimeText(h, m, mer) == [h |-> h, m |-> m, mer |-> mer]

(* moment(text, ['h:mm A', 'H:mm']): seconds after midnight.  With a       *)
(* meridiem the 12-hour form applies (12 AM is 0, 12 PM is 12).            *)
parseTimeOfDay(t) ==
    LET hour == IF t.mer = "" THEN t.h
                ELSE IF t.mer = "PM" THEN (t.h % 12) + 12
                ELSE t.h % 12
    IN  hour * 3600 + t.m * 60

(* startTime.set({year, month, date}): the parsed time on today's date.    *)
anchorToday(t, today) == Instant(today.day, parseTimeOfDay(t))

(***************************************************************************)
(* validateClassTime(batch), with moment() passed as `today`.              *)
(* batch.batch_time is the text split at "-": a sequence of one or two     *)
(* time texts, or None.  start_date, end_date and recurring_days are None  *)
(* or Some(value).                                                         *)
(***************************************************************************)
Valid == [valid |-> TRUE, message |-> ""]
Denied(msg) == [valid |-> FALSE, message |-> msg]

ScheduleMessages ==
    {"Batch is already completed", "Batch is currently inactive",
     "Batch has not started yet", "Batch has ended",
     "Today is not a scheduled class day", "Class has not started yet",
     "Class is over for today"}

(* A slip that tests the calendar bounds before the lifecycle status.      *)
strictChecks_DatesFirst(batch, today) ==
    IF batch.start_date # None /\ isBefore(today, startOfDay(batch.start_date[1]))
        THEN Denied("Batch has not started yet")
    ELSE IF batch.end_date # None /\ isAfter(today, endOfDay(batch.end_date[1]))
        THEN Denied("Batch has ended")
    ELSE IF batch.status = "completed" THEN Denied("Batch is already completed")
    ELSE IF batch.status = "inactive" THEN Denied("Batch is currently inactive")
    ELSE IF batch.recurring_days = None \/ formatDddd(today) \notin batch.recurring_days[1]
        THEN Denied("Today is not a scheduled class day")
    ELSE IF batch.batch_time # None
               /\ isBefore(today, subtractSeconds(anchorToday(batch.batch_time[1], today),
                                                  GraceSeconds))
        THEN Denied("Class has not started yet")
    ELSE IF Len(batch.batch_time) > 1
               /\ isAfter(today, anchorToday(batch.batch_time[2], today))
        THEN Denied("Class is over for today")
    ELSE Valid

strictChecks(batch, today) ==
    IF batch.status = "completed" THEN Denied("Batch is already completed")
    ELSE IF batch.status = "inactive" THEN Denied("Batch is currently inactive")
    ELSE IF batch.start_date # None /\ isBefore(today, startOfDay(batch.start_date[1]))
        THEN Denied("Batch has not started yet")
    ELSE IF batch.end_date # None /\ isAfter(today, endOfDay(batch.end_date[1]))
        THEN Denied("Batch has ended")
    ELSE IF batch.recurring_days = None \/ formatDddd(today) \notin batch.recurring_days[1]
        THEN Denied("Today is not a scheduled class day")
    ELSE IF batch.batch_time # None
               /\ isBefore(today, subtractSeconds(anchorToday(batch.batch_time[1], today),
                                                  GraceSeconds))
        THEN Denied("Class has not started yet")
    ELSE IF Len(batch.batch_time) > 1
               /\ isAfter(today, anchorToday(batch.batch_time[2], today))
        THEN Denied("Class is over for today")
    ELSE Valid

(* A slip that tests the lifecycle status before the master switch.        *)
validateClassTime_StatusFirst(batch, today) ==
    IF batch.status \in {"completed", "inactive"} THEN strictChecks(batch, today)
    ELSE IF batch.is_strict_schedule = "false" THEN Valid
    ELSE strictChecks(batch, today)

validateClassTime(batch, today) ==
    IF batch.is_strict_schedule = "false" THEN Valid
    ELSE strictChecks(batch, today)

(***************************************************************************)
(* The stored documents                                                    *)
(***************************************************************************)
StrictValues == {"true", "false", "undefined"}   \* is_strict_schedule
Statuses == {"active", "inactive", "completed"}

Monday == Instant(1, 0)
Weekly == Some({"Monday"})
TenToEleven == <<TimeText(10, 0, "AM"), TimeText(11, 0, "AM")>>

(* A Batch document: the fields the controllers read or write.             *)
BatchDoc(id, strict, status, sd, ed, days, time, mid, platform) ==
    [_id |-> id, is_strict_schedule |-> strict, status |-> status,
     start_date |-> sd, end_date |-> ed, recurring_days |-> days,
     batch_time |-> time, dyte_meeting_id |-> mid, meeting_platform |-> platform,
     last_class_start_time |-> None]

(* Identifiers the provider hands out, in the order it hands them out.     *)
ProviderIds == <<"m1", "m2", "m3", "m4", "m5", "m6">>
LegacyId == "m0"                    \* a reference stored before the run

(* A slip that creates a meeting for every request.                        *)
needsMeeting_Always(batch) == batch.dyte_meeting_id = batch.dyte_meeting_id

(* A slip that tests the identifier alone and keeps a foreign reference.   *)
needsMeeting_IdOnly(batch) == batch.dyte_meeting_id = Null

(* !batch.dyte_meeting_id || batch.meeting_platform !== 'Dyte'             *)
needsMeeting(batch) ==
    batch.dyte_meeting_id = Null \/ batch.meeting_platform # DytePlatform

(***************************************************************************)
(* Callers (req.user) and request bodies                                   *)
(***************************************************************************)
(* A slip that lets a student through the role gate.                       *)
StartRoles_WithStudent == {"tenant", "instructor", "admin", "superadmin", "student"}

StartRoles == {"tenant", "instructor", "admin", "superadmin"}
Callers ==
    {[id |-> "u1", role |-> "student"], [id |-> "u2", role |-> "instructor"],
     [id |-> "u3", role |-> "tenant"], [id |-> "u4", role |-> "admin"],
     [id |-> "u5", role |-> "superadmin"], [id |-> "u6", role |-> "parent"]}
RequestBatchIds == {Null, "b1", "b9"}     \* missing, stored, not stored

MaxCalls == 3                       \* requests begun in one run
SlotIds == {1, 2}                   \* requests in flight together

VARIABLES
    batches,        \* Batch collection: _id -> document
    attendance,     \* Attendance collection, in insertion order
    liveSessions,   \* LiveSession collection, in insertion order
    meetings,       \* provider: number of meetings created
    participants,   \* provider: number of participants issued
    now,            \* the wall clock
    calls,          \* requests begun so far
    budget,         \* requests this run may begin
    slot,           \* the admission requests in flight
    joined,         \* history: student Joins answered with success
    lostSaves,      \* history: saves of a class that failed
    probe,          \* one evaluation of validateClassTime, or None
    remote,         \* provider: meeting id -> its listing of sessions
    sweep,          \* the sweeps in flight
    history         \* the sweeps finished, in order of finishing

vars == <<batches, attendance, liveSessions, meetings, participants, now, calls,
          budget, slot, joined, lostSaves, probe, remote, sweep, history>>

(* What no admission request changes.                                     *)
admFrame == <<liveSessions, now, budget, probe, remote, sweep, history>>

Idle ==
    [pc |-> "idle", op |-> Null, caller |-> None, batchId |-> Null,
     batch |-> None, dirty |-> {}, loaded |-> None, validation |-> None,
     created |-> <<>>, saved |-> FALSE, persisted |-> None,
     participant |-> None,
     attended |-> FALSE, response |-> None]

(* res.status(code).json({...})                                            *)
Response(code, msg, mid, token, role) ==
    [status |-> code, message |-> msg, meeting_id |-> mid, authToken |-> token,
     role |-> role]
(* A slip that answers a caught failure as a bad request.                  *)
Reject_FailureAsBadRequest(code, msg) ==
    Response(IF code = 500 THEN 400 ELSE code, msg, Null, None, Null)

Reject(code, msg) == Response(code, msg, Null, None, Null)

(* The handler sends its response and ends.  `joined` counts the Joins of  *)
(* student callers that were answered with success.                        *)
Finish(s, r, resp) ==
    /\ slot' = [slot EXCEPT ![s] = [r EXCEPT !.pc = "done", !.batch = None,
                                             !.dirty = {}, !.response = Some(resp)]]
    /\ joined' = IF r.op = "join" /\ r.caller[1].role = "student" /\ resp.status = 200
                 THEN joined + 1 ELSE joined
    /\ lostSaves' = IF r.pc = "save" THEN lostSaves + 1 ELSE lostSaves

(* The handler parks on its next await.                                    *)
Park(s, r, pc) ==
    /\ slot' = [slot EXCEPT ![s] = [r EXCEPT !.pc = pc]]
    /\ joined' = joined
    /\ lostSaves' = lostSaves

(* createDyteMeeting: the provider's next identifier.                      *)
NewMeetingId == ProviderIds[meetings + 1]

(* addParticipant(meetingId, name, preset, userId): the issued participant *)
(* (its token stands for exactly this participant).                        *)
Participant(mid, preset, userId) ==
    [meeting_id |-> mid, preset_name |-> preset, client_specific_id |-> userId]

(* A slip that persists the start time but not the meeting reference.     *)
SavedDoc_WithoutReference(stored, local, dirty) ==
    [f \in DOMAIN stored |->
        IF f \in dirty \cap {"last_class_start_time"} THEN local[f] ELSE stored[f]]

(* A slip that keeps a valid stored reference against a later save.        *)
SavedDoc_FirstWins(stored, local, dirty) ==
    [f \in DOMAIN stored |->
        IF f \in dirty
           /\ ~(f \in {"dyte_meeting_id", "meeting_platform"}
                /\ stored.dyte_meeting_id # Null
                /\ stored.meeting_platform = DytePlatform)
        THEN local[f] ELSE stored[f]]

(* batch.save(): the modified paths of the document are written.           *)
SavedDoc(stored, local, dirty) ==
    [f \in DOMAIN stored |-> IF f \in dirty THEN local[f] ELSE stored[f]]

(* The meeting reference of a document.                                    *)
Reference(doc) ==
    [dyte_meeting_id |-> doc.dyte_meeting_id, meeting_platform |-> doc.meeting_platform]

(* Assignments to the loaded document mark a path modified when the value  *)
(* changes.                                                                *)
SetMeeting(r, mid) ==
    [r EXCEPT !.batch = Some([r.batch[1] EXCEPT !.dyte_meeting_id = mid,
                                                !.meeting_platform = DytePlatform]),
              !.dirty = r.dirty \cup {"dyte_meeting_id"}
                        \cup (IF r.batch[1].meeting_platform # DytePlatform
                              THEN {"meeting_platform"} ELSE {}),
              !.created = Append(r.created, mid)]

(* A slip that leaves the start time as it was loaded.                     *)
StampStart_Never(r) == r

StampStart(r) ==
    [r EXCEPT !.batch = Some([r.batch[1] EXCEPT !.last_class_start_time = Some(now)]),
              !.dirty = r.dirty \cup {"last_class_start_time"}]

(***************************************************************************)
(* startBatchClass                                                         *)
(***************************************************************************)
(* Lines 108-118: the body is read, the id and the role are tested, and    *)
(* the handler parks on Batch.findById.                                    *)
StartBegin(s) ==
    /\ slot[s].pc \in {"idle", "done"}
    /\ calls < budget
    /\ calls' = calls + 1
    /\ \E caller \in Callers, bid \in RequestBatchIds :
         LET r == [Idle EXCEPT !.op = "start", !.caller = Some(caller),
                               !.batchId = bid]
         IN  IF bid = Null
                 THEN Finish(s, r, Reject(400, "Batch ID required"))
             ELSE IF caller.role \notin StartRoles
                 THEN Finish(s, r, Reject(403, "Not allowed"))
             ELSE Park(s, r, "find")
    /\ UNCHANGED <<admFrame, batches, attendance, meetings, participants>>

(* Lines 118-134: findById answers; not found, the schedule gate, and the  *)
(* lease test.  With a valid reference the start time is stamped at once.  *)
StartFind(s) ==
    LET r == slot[s] IN
    /\ r.pc = "find" /\ r.op = "start"
    /\ \/ Finish(s, r, Reject(500, "Failed to start class"))
       \/ IF r.batchId \notin DOMAIN batches
              THEN Finish(s, r, Reject(404, "Batch not found"))
          ELSE LET doc == batches[r.batchId]
                   v == validateClassTime(doc, now)
                   r1 == [r EXCEPT !.batch = Some(doc), !.loaded = Some(doc),
                                   !.validation = Some(v)]
               IN  IF ~v.valid THEN Finish(s, r1, Reject(400, v.message))
                   ELSE IF needsMeeting(doc)
                       THEN Park(s, r1, "create")
                   ELSE Park(s, StampStart(r1), "save")
    /\ UNCHANGED <<admFrame, batches, attendance, meetings, participants, calls>>

(* Lines 128-135: createDyteMeeting answers; the reference and the start   *)
(* time are set on the loaded document and the handler parks on save.      *)
StartCreate(s) ==
    LET r == slot[s] IN
    /\ r.pc = "create" /\ r.op = "start"
    /\ \/ /\ Finish(s, r, Reject(500, "Failed to start class"))
          /\ UNCHANGED meetings
       \/ /\ meetings' = meetings + 1
          /\ Park(s, StampStart(SetMeeting(r, NewMeetingId)), "save")
    /\ UNCHANGED <<admFrame, batches, attendance, participants, calls>>

(* Lines 135-138: save answers; getUserName never throws and touches no    *)
(* state of the model, so the handler is next parked on addParticipant.    *)
StartSave(s) ==
    LET r == slot[s] IN
    /\ r.pc = "save" /\ r.op = "start"
    /\ \/ /\ Finish(s, r, Reject(500, "Failed to start class"))
          /\ UNCHANGED batches
       \/ /\ batches' = [batches EXCEPT ![r.batchId] = SavedDoc(@, r.batch[1], r.dirty)]
          /\ Park(s, [r EXCEPT !.saved = TRUE,
                               !.persisted = Some(Reference(
                                   SavedDoc(batches[r.batchId], r.batch[1], r.dirty)))],
                  "participant")
    /\ UNCHANGED <<admFrame, attendance, meetings, participants, calls>>

(* A slip that undoes the lease step when the participant is not issued.   *)
StartParticipant_RollsBack(s) ==
    LET r == slot[s]
        p == Participant(r.batch[1].dyte_meeting_id, "group_call_host", r.caller[1].id)
    IN
    /\ r.pc = "participant" /\ r.op = "start"
    /\ \/ /\ Finish(s, r, Reject(500, "Failed to start class"))
          /\ batches' = [batches EXCEPT ![r.batchId] =
                             [@ EXCEPT !.dyte_meeting_id = r.loaded[1].dyte_meeting_id,
                                       !.meeting_platform = r.loaded[1].meeting_platform,
                                       !.last_class_start_time =
                                           r.loaded[1].last_class_start_time]]
          /\ UNCHANGED participants
       \/ /\ participants' = participants + 1
          /\ UNCHANGED batches
          /\ Finish(s, [r EXCEPT !.participant = Some(p)],
                    Response(200, "", r.batch[1].dyte_meeting_id, Some(p), "instructor"))
    /\ UNCHANGED <<admFrame, attendance, meetings, calls>>

(* Lines 138-150: addParticipant answers and the response is sent.         *)
StartParticipant(s) ==
    LET r == slot[s]
        p == Participant(r.batch[1].dyte_meeting_id, "group_call_host", r.caller[1].id)
    IN
    /\ r.pc = "participant" /\ r.op = "start"
    /\ \/ /\ Finish(s, r, Reject(500, "Failed to start class"))
          /\ UNCHANGED participants
       \/ /\ participants' = participants + 1
          /\ Finish(s, [r EXCEPT !.participant = Some(p)],
                    Response(200, "", r.batch[1].dyte_meeting_id, Some(p), "instructor"))
    /\ UNCHANGED <<admFrame, batches, attendance, meetings, calls>>

(***************************************************************************)
(* joinBatchClass                                                          *)
(***************************************************************************)
(* A slip that lets every joiner create the meeting.                       *)
joinMayCreate_Always(batch) == batch.is_strict_schedule \in StrictValues

(* A slip that treats only an explicit true as strict.                     *)
joinMayCreate_UnlessTrue(batch) == batch.is_strict_schedule # "true"

(* Line 177: a joiner may create the meeting only when strict mode is off. *)
joinMayCreate(batch) == batch.is_strict_schedule = "false"

(* A slip that makes every role allowed to Start a host.                   *)
joinPreset_AsStart(role) ==
    IF role \in {"tenant", "instructor", "admin", "superadmin"} THEN "group_call_host"
    ELSE "group_call_participant"

(* Lines 191-193 *)
joinPreset(role) ==
    IF role = "tenant" \/ role = "instructor" THEN "group_call_host"
    ELSE "group_call_participant"

(* Slips in the role test of the attendance step.                          *)
recordsAttendance_Misspelt(role) == role = "Student"
recordsAttendance_NonStaff(role) == role \notin {"tenant", "instructor", "admin", "superadmin"}

(* Line 203 *)
recordsAttendance(role) == role = "student"

(* Lines 160-167: the body is read, the id is tested, and the handler      *)
(* parks on Batch.findById.                                                *)
JoinBegin(s) ==
    /\ slot[s].pc \in {"idle", "done"}
    /\ calls < budget
    /\ calls' = calls + 1
    /\ \E caller \in Callers, bid \in RequestBatchIds :
         LET r == [Idle EXCEPT !.op = "join", !.caller = Some(caller),
                               !.batchId = bid]
         IN  IF bid = Null
                 THEN Finish(s, r, Reject(400, "Batch ID required"))
             ELSE Park(s, r, "find")
    /\ UNCHANGED <<admFrame, batches, attendance, meetings, participants>>

(* Lines 167-190: findById answers; not found, the schedule gate, and the  *)
(* lease test with its strict-mode rejection.                              *)
JoinFind(s) ==
    LET r == slot[s] IN
    /\ r.pc = "find" /\ r.op = "join"
    /\ \/ Finish(s, r, Reject(500, "Failed to join class"))
       \/ IF r.batchId \notin DOMAIN batches
              THEN Finish(s, r, Reject(404, "Batch not found"))
          ELSE LET doc == batches[r.batchId]
                   v == validateClassTime(doc, now)
                   r1 == [r EXCEPT !.batch = Some(doc), !.loaded = Some(doc),
                                   !.validation = Some(v)]
               IN  IF ~v.valid THEN Finish(s, r1, Reject(400, v.message))
                   ELSE IF needsMeeting(doc)
                       THEN IF joinMayCreate(doc)
                                THEN Park(s, r1, "create")
                            ELSE Finish(s, r1,
                                        Reject(400, "Instructor has not started the class yet"))
                   ELSE Park(s, r1, "participant")
    /\ UNCHANGED <<admFrame, batches, attendance, meetings, participants, calls>>

(* Lines 178-181: createDyteMeeting answers; the reference is set on the   *)
(* loaded document and the handler parks on save.                          *)
JoinCreate(s) ==
    LET r == slot[s] IN
    /\ r.pc = "create" /\ r.op = "join"
    /\ \/ /\ Finish(s, r, Reject(500, "Failed to join class"))
          /\ UNCHANGED meetings
       \/ /\ meetings' = meetings + 1
          /\ Park(s, SetMeeting(r, NewMeetingId), "save")
    /\ UNCHANGED <<admFrame, batches, attendance, participants, calls>>

(* Lines 181-195: save answers; the handler is next parked on              *)
(* addParticipant (getUserName never throws).                              *)
JoinSave(s) ==
    LET r == slot[s] IN
    /\ r.pc = "save" /\ r.op = "join"
    /\ \/ /\ Finish(s, r, Reject(500, "Failed to join class"))
          /\ UNCHANGED batches
       \/ /\ batches' = [batches EXCEPT ![r.batchId] = SavedDoc(@, r.batch[1], r.dirty)]
          /\ Park(s, [r EXCEPT !.saved = TRUE,
                               !.persisted = Some(Reference(
                                   SavedDoc(batches[r.batchId], r.batch[1], r.dirty)))],
                  "participant")
    /\ UNCHANGED <<admFrame, attendance, meetings, participants, calls>>

(* Lines 195-217: addParticipant answers; a student's handler parks on     *)
(* Attendance.create, every other role is answered at once.                *)
JoinParticipant(s) ==
    LET r == slot[s]
        role == r.caller[1].role
        p == Participant(r.batch[1].dyte_meeting_id, joinPreset(role), r.caller[1].id)
        r1 == [r EXCEPT !.participant = Some(p)]
    IN
    /\ r.pc = "participant" /\ r.op = "join"
    /\ \/ /\ Finish(s, r, Reject(500, "Failed to join class"))
          /\ UNCHANGED participants
       \/ /\ participants' = participants + 1
          /\ IF recordsAttendance(role)
                 THEN Park(s, r1, "attendance")
             ELSE Finish(s, r1, Response(200, "", r.batch[1].dyte_meeting_id,
                                         Some(p), role))
    /\ UNCHANGED <<admFrame, batches, attendance, meetings, calls>>

(* Lines 204-217: Attendance.create answers and the response is sent.      *)
JoinAttendance(s) ==
    LET r == slot[s]
        rec == [student_id |-> r.caller[1].id, batch_id |-> r.batch[1]._id,
                date |-> now.day, status |-> "present"]
    IN
    /\ r.pc = "attendance" /\ r.op = "join"
    /\ \/ /\ Finish(s, r, Reject(500, "Failed to join class"))
          /\ UNCHANGED attendance
       \/ /\ attendance' = Append(attendance, rec)
          /\ Finish(s, [r EXCEPT !.attended = TRUE],
                    Response(200, "", r.batch[1].dyte_meeting_id, r.participant,
                             r.caller[1].role))
    /\ UNCHANGED <<admFrame, batches, meetings, participants, calls>>

(***************************************************************************)
(* Clock readings around the class window (Monday, 10:00 AM-11:00 AM).  A  *)
(* run of a few requests takes far less than a minute, so one run reads    *)
(* one instant.                                                            *)
(***************************************************************************)
At(h, m) == h * 3600 + m * 60
AdmissionInstants == {Instant(1, At(9, 44)), Instant(1, At(9, 46)), Instant(1, At(11, 1))}

(***************************************************************************)
(* Admission: the classes the requests run against                         *)
(***************************************************************************)
RefStates == {<<Null, Null>>, <<Null, DytePlatform>>, <<LegacyId, DytePlatform>>,
              <<LegacyId, "Zoom">>}

(* A class that holds a valid reference was started on an earlier day.     *)
EarlierStart == Some(Instant(0, At(10, 0)))

AdmissionBatches ==
    {[BatchDoc("b1", strict, status, None, None, Weekly, TenToEleven, ref[1], ref[2])
         EXCEPT !.last_class_start_time =
                    IF ref = <<LegacyId, DytePlatform>> THEN EarlierStart ELSE None] :
        strict \in StrictValues, status \in Statuses, ref \in RefStates}

InitStores ==
    /\ attendance = <<>>
    /\ liveSessions = <<>>
    /\ meetings = 0
    /\ participants = 0
    /\ calls = 0
    /\ joined = 0
    /\ lostSaves = 0
    /\ probe = None
    /\ remote = <<>>
    /\ sweep = <<>>
    /\ history = <<>>

(* One request at a time, against every kind of class at every instant.    *)
InitSequential ==
    /\ InitStores
    /\ batches \in {[id \in {"b1"} |-> doc] : doc \in AdmissionBatches}
    /\ now \in AdmissionInstants
    /\ budget = MaxCalls
    /\ slot = [s \in {1} |-> Idle]

(* Requests in flight together, against an active class inside its window. *)
InitConcurrent ==
    /\ InitStores
    /\ batches \in {[id \in {"b1"} |-> doc] :
                       doc \in {d \in AdmissionBatches : d.status = "active"}}
    /\ now = Instant(1, At(9, 46))
    /\ budget = MaxCalls - 1
    /\ slot = [s \in SlotIds |-> Idle]

InitAdmission == InitSequential \/ InitConcurrent

NextAdmission ==
    \/ \E s \in DOMAIN slot : StartBegin(s)
    \/ \E s \in DOMAIN slot : StartFind(s)
    \/ \E s \in DOMAIN slot : StartCreate(s)
    \/ \E s \in DOMAIN slot : StartSave(s)
    \/ \E s \in DOMAIN slot : StartParticipant(s)
    \/ \E s \in DOMAIN slot : JoinBegin(s)
    \/ \E s \in DOMAIN slot : JoinFind(s)
    \/ \E s \in DOMAIN slot : JoinCreate(s)
    \/ \E s \in DOMAIN slot : JoinSave(s)
    \/ \E s \in DOMAIN slot : JoinParticipant(s)
    \/ \E s \in DOMAIN slot : JoinAttendance(s)

Spec == InitAdmission /\ [][NextAdmission]_vars

(***************************************************************************)
(* The schedule gate on its own: validateClassTime applied once to a class *)
(* and a clock reading drawn from every combination of the fields it reads *)
(***************************************************************************)
GateDates == {None, Some(Instant(0, At(12, 0))), Some(Instant(1, At(12, 0))),
              Some(Instant(2, At(12, 0)))}
GateDays == {None, Some({}), Some({"Monday"}), Some({"Tuesday", "Thursday"})}
GateTimes ==
    {None, <<TimeText(10, 0, "AM")>>, TenToEleven,
     <<TimeText(10, 0, ""), TimeText(11, 0, "")>>,
     <<TimeText(12, 0, "PM"), TimeText(1, 0, "PM")>>}
GateInstants ==
    {Instant(1, At(9, 44)), Instant(1, At(9, 45)), Instant(1, At(9, 46)),
     Instant(1, At(11, 0)),
     Instant(1, At(11, 1)), Instant(1, At(12, 30)), Instant(2, At(10, 30))}

GateBatches ==
    {BatchDoc("b1", strict, status, sd, ed, days, time, Null, Null) :
        strict \in StrictValues, status \in Statuses, sd \in GateDates,
        ed \in GateDates, days \in GateDays, time \in GateTimes}

InitEvaluate ==
    /\ InitStores
    /\ batches \in {[id \in {"b1"} |-> doc] : doc \in GateBatches}
    /\ now \in GateInstants
    /\ budget = 0
    /\ slot = <<>>

(* validateClassTime(batch), called outside any request.                   *)
Evaluate ==
    /\ probe = None /\ slot = <<>> /\ sweep = <<>>
    /\ probe' = Some([batch |-> batches["b1"], today |-> now,
                      result |-> validateClassTime(batches["b1"], now)])
    /\ UNCHANGED <<batches, attendance, liveSessions, meetings, participants, now,
                   calls, budget, slot, joined, lostSaves, remote, sweep, history>>

EvalSpec == InitEvaluate /\ [][Evaluate]_vars

InitGate == InitEvaluate \/ InitAdmission

NextGate == Evaluate \/ NextAdmission

GateSpec == InitGate /\ [][NextGate]_vars

(***************************************************************************)
(* syncDyteSessions                                                        *)
(***************************************************************************)
(* A session as the provider lists it: created_at and updated_at in        *)
(* milliseconds, duration None when the provider reports none.             *)
RemoteSession(id, status, created, updated, duration) ==
    [id |-> id, status |-> status, created_at |-> created, updated_at |-> updated,
     duration |-> duration]

(* Math.round(x / 1000) for a whole number of milliseconds x.              *)
roundSeconds(ms) == (ms + 500) \div 1000

(* Lines 134-139: the reported duration when it is truthy, else the        *)
(* rounded difference of the two timestamps.                               *)
durationSeconds(session) ==
    IF session.duration # None /\ session.duration[1] # 0 THEN session.duration[1]
    ELSE roundSeconds(session.updated_at - session.created_at)

(* Line 141 *)
tooShort(seconds) == seconds < MinDurationSeconds

(* A slip that truncates to two decimals instead of rounding.              *)
durationMinutes_Truncated(seconds) == (seconds * 100) \div 60

(* Line 143: parseFloat((seconds / 60).toFixed(2)), in hundredths of a     *)
(* minute (seconds / 60 is never half-way between two hundredths).         *)
durationMinutes(seconds) == (seconds * 100 + 30) \div 60

(* Lines 147-165: the fields of the new LiveSession the claims read.       *)
NewSession(session, batch) ==
    [dyte_meeting_id |-> session.id, batch_id |-> batch._id,
     actual_start_time |-> session.created_at, actual_end_time |-> session.updated_at,
     duration_seconds |-> durationSeconds(session),
     duration_minutes |-> durationMinutes(durationSeconds(session)),
     status |-> "completed"]

(* A slip that looks the session up by a field that never matches.         *)
sessionExists_Never(id) == FALSE

(* LiveSession.exists({ dyte_meeting_id: id })                             *)
sessionExists(id) ==
    \E i \in DOMAIN liveSessions : liveSessions[i].dyte_meeting_id = id

(* A schema without the unique index.                                      *)
uniqueViolation_NoIndex(record) == FALSE

(* The LiveSession schema declares dyte_meeting_id unique: create raises a *)
(* duplicate-key error when a record with the identifier is stored.        *)
uniqueViolation(record) ==
    \E i \in DOMAIN liveSessions :
        liveSessions[i].dyte_meeting_id = record.dyte_meeting_id

(* Line 124: only ENDED sessions are looked at.                            *)
IsEnded(session) == session.status = "ENDED"
endedOf(sessions) == SelectSeq(sessions, IsEnded)

(* Batch.find({ dyte_meeting_id: { $exists: true, $ne: null } })           *)
RECURSIVE withMeeting(_)
withMeeting(ids) ==
    IF ids = <<>> THEN <<>>
    ELSE IF batches[Head(ids)].dyte_meeting_id # Null
        THEN <<batches[Head(ids)]>> \o withMeeting(Tail(ids))
    ELSE withMeeting(Tail(ids))

BatchOrder == <<"b1", "b2">>
enumerated == withMeeting(SelectSeq(BatchOrder, LAMBDA id : id \in DOMAIN batches))

SweepIdle ==
    [pc |-> "idle", todo |-> <<>>, sessions |-> <<>>, totalSynced |-> 0,
     failedFor |-> {}, made |-> {}, after |-> 0, response |-> None]

SweepOff == [SweepIdle EXCEPT !.pc = "off"]      \* a lane that runs nothing
SweepIds == {1, 2}                  \* sweeps in flight together

admVars == <<batches, attendance, meetings, participants, now, calls, budget, slot,
             joined, lostSaves, probe>>

(* res.json / res.status(500).json: the sweep ends and is filed.           *)
SweepFinish(w, r, code) ==
    LET done == [r EXCEPT !.pc = "done", !.todo = <<>>, !.sessions = <<>>,
                          !.response = Some([status |-> code, count |-> r.totalSynced])]
    IN  /\ sweep' = [sweep EXCEPT ![w] = done]
        /\ history' = Append(history, [count |-> done.totalSynced, status |-> code,
                                       failedFor |-> done.failedFor,
                                       after |-> done.after, made |-> done.made])

SweepPark(w, r) ==
    /\ sweep' = [sweep EXCEPT ![w] = r]
    /\ history' = history

(* The loop over batches moves on: the next batch is listed, or the sweep  *)
(* answers with its count.                                                 *)
NextBatch(w, r) ==
    IF Len(r.todo) <= 1 THEN SweepFinish(w, r, 200)
    ELSE SweepPark(w, [r EXCEPT !.pc = "list", !.todo = Tail(r.todo),
                                !.sessions = <<>>])

(* The loop over a batch's sessions moves on: the next ENDED session is    *)
(* looked up, or the batch is finished.                                    *)
NextSession(w, r) ==
    IF Len(r.sessions) <= 1 THEN NextBatch(w, r)
    ELSE SweepPark(w, [r EXCEPT !.pc = "exists", !.sessions = Tail(r.sessions)])

(* A slip that leaves the try around the loop instead of inside it: the    *)
(* first failure ends the sweep in the outer catch.                        *)
CatchForBatch_Aborts(w, r) ==
    SweepFinish(w, [r EXCEPT !.failedFor = @ \cup {Head(r.todo)._id}], 500)

(* The catch of lines 171-174: log and go on with the next batch.          *)
CatchForBatch(w, r) ==
    NextBatch(w, [r EXCEPT !.failedFor = @ \cup {Head(r.todo)._id}])

MaxSweeps == 2                      \* sweeps begun in one run

(* Lines 102-108: the handler parks on Batch.find.                         *)
SweepBegin(w) ==
    /\ sweep[w].pc \in {"idle", "done"}
    /\ Len(history) + Cardinality({v \in DOMAIN sweep :
                                      sweep[v].pc \notin {"idle", "done", "off"}})
           < MaxSweeps
    /\ SweepPark(w, [SweepIdle EXCEPT !.pc = "enumerate", !.after = Len(history)])
    /\ UNCHANGED <<admVars, liveSessions, remote>>

(* Lines 106-116: Batch.find answers; with no batch the sweep answers at   *)
(* once, else the first batch is listed.  A failure here is the outer      *)
(* catch: 500.                                                             *)
SweepEnumerate(w) ==
    LET r == sweep[w] IN
    /\ r.pc = "enumerate"
    /\ \/ SweepFinish(w, r, 500)
       \/ IF enumerated = <<>> THEN SweepFinish(w, r, 200)
          ELSE SweepPark(w, [r EXCEPT !.pc = "list", !.todo = enumerated])
    /\ UNCHANGED <<admVars, liveSessions, remote>>

(* Lines 116-127: the provider's listing answers; the ENDED sessions are   *)
(* kept and the first is looked up.                                        *)
SweepList(w) ==
    LET r == sweep[w]
        listing == endedOf(remote[Head(r.todo).dyte_meeting_id])
    IN
    /\ r.pc = "list"
    /\ \/ CatchForBatch(w, r)
       \/ IF listing = <<>> THEN NextBatch(w, r)
          ELSE SweepPark(w, [r EXCEPT !.pc = "exists", !.sessions = listing])
    /\ UNCHANGED <<admVars, liveSessions, remote>>

(* Lines 127-167: LiveSession.exists answers; a recorded or too short      *)
(* session is skipped, any other is about to be created.                   *)
SweepExists(w) ==
    LET r == sweep[w] IN
    /\ r.pc = "exists"
    /\ \/ CatchForBatch(w, r)
       \/ IF sessionExists(Head(r.sessions).id)
                 \/ tooShort(durationSeconds(Head(r.sessions)))
              THEN NextSession(w, r)
          ELSE SweepPark(w, [r EXCEPT !.pc = "create"])
    /\ UNCHANGED <<admVars, liveSessions, remote>>

(* Lines 167-169: LiveSession.create answers.                              *)
SweepCreate(w) ==
    LET r == sweep[w]
        session == Head(r.sessions)
    IN
    /\ r.pc = "create"
    /\ \/ /\ CatchForBatch(w, r)
          /\ UNCHANGED liveSessions
       \/ /\ ~uniqueViolation(NewSession(session, Head(r.todo)))
          /\ liveSessions' = Append(liveSessions, NewSession(session, Head(r.todo)))
          /\ NextSession(w, [r EXCEPT !.totalSynced = @ + 1,
                                      !.made = @ \cup {session.id}])
    /\ UNCHANGED <<admVars, remote>>

(***************************************************************************)
(* Sweeps: the classes and the provider's session history they run against *)
(***************************************************************************)
S61 == RemoteSession("s61", "ENDED", 0, 70000, Some(61))
S45 == RemoteSession("s45", "ENDED", 0, 90000, Some(45))
S60t == RemoteSession("s60t", "ENDED", 0, 59500, None)
S59t == RemoteSession("s59t", "ENDED", 0, 59499, None)
S0 == RemoteSession("s0", "ENDED", 0, 120000, Some(0))
SLive == RemoteSession("sLive", "LIVE", 0, 300000, Some(300))
SessionPool == {S61, S45, S60t, S59t, S0, SLive}

MaxListing == 2                     \* sessions in one listing
Listings == UNION {[1 .. n -> SessionPool] : n \in 0 .. MaxListing}

SweepBatch(id, mid) ==
    BatchDoc(id, "true", "active", None, None, Weekly, TenToEleven, mid, DytePlatform)

InitSweepStores ==
    /\ attendance = <<>>
    /\ liveSessions = <<>>
    /\ meetings = 0
    /\ participants = 0
    /\ now = Instant(1, At(9, 46))
    /\ calls = 0
    /\ budget = 0
    /\ slot = <<>>
    /\ joined = 0
    /\ lostSaves = 0
    /\ probe = None
    /\ history = <<>>

(* The second class: without a reference, sharing the first class's        *)
(* meeting, or with a meeting and a listing of its own.                    *)
SecondClasses ==
    {<<Null, <<>> >>, <<"m1", <<>> >>, <<"m2", <<S61>> >>, <<"m2", <<S60t, S61>> >>}

(* One sweep after the other, against every short listing.                 *)
InitSweepSequential ==
    /\ InitSweepStores
    /\ \E l1 \in Listings, second \in SecondClasses :
         /\ batches = [id \in {"b1", "b2"} |->
                          IF id = "b1" THEN SweepBatch(id, "m1")
                          ELSE SweepBatch(id, second[1])]
         /\ remote = [m \in {"m1", "m2"} |-> IF m = "m1" THEN l1 ELSE second[2]]
    /\ sweep = [w \in SweepIds |-> IF w = 1 THEN SweepIdle ELSE SweepOff]

(* Two sweeps in flight together.                                          *)
InitSweepConcurrent ==
    /\ InitSweepStores
    /\ \E mid \in {"m1", "m2"} :
         batches = [id \in {"b1", "b2"} |->
                       IF id = "b1" THEN SweepBatch(id, "m1") ELSE SweepBatch(id, mid)]
    /\ \E l1 \in {<<S61>>, <<S61, S0>>, <<S61, S61>>}, l2 \in {<<S61>>, <<S60t>>} :
         remote = [m \in {"m1", "m2"} |-> IF m = "m1" THEN l1 ELSE l2]
    /\ sweep = [w \in SweepIds |-> SweepIdle]

InitSweep == InitSweepSequential \/ InitSweepConcurrent

NextSweep ==
    \/ \E w \in DOMAIN sweep : SweepBegin(w)
    \/ \E w \in DOMAIN sweep : SweepEnumerate(w)
    \/ \E w \in DOMAIN sweep : SweepList(w)
    \/ \E w \in DOMAIN sweep : SweepExists(w)
    \/ \E w \in DOMAIN sweep : SweepCreate(w)

SweepSpec == InitSweep /\ [][NextSweep]_vars

(* Every await of a sweep settles: the call answers or fails.              *)
SweepStep(w) ==
    SweepEnumerate(w) \/ SweepList(w) \/ SweepExists(w) \/ SweepCreate(w)

FairSweepSpec == SweepSpec /\ \A w \in SweepIds : WF_vars(SweepStep(w))

(***************************************************************************)
(* The whole program: admission requests and sweeps against one store      *)
(***************************************************************************)
InitApp == InitAdmission \/ InitSweep

NextApp == NextAdmission \/ NextSweep

AppSpec == InitApp /\ [][NextApp]_vars

(***************************************************************************)
(* Properties of the admission controller                                  *)
(***************************************************************************)
ValidRef(doc) == doc.dyte_meeting_id # Null /\ doc.meeting_platform = DytePlatform
PastGate(r) == r.loaded # None /\ r.validation = Some(Valid)
Answered(r, code) == r.pc = "done" /\ r.response[1].status = code
StaleRef(doc) == doc.dyte_meeting_id # Null /\ doc.meeting_platform # DytePlatform
StrictJoin(r) == r.op = "join" /\ r.loaded[1].is_strict_schedule # "false"
NotStarted == Reject(400, "Instructor has not started the class yet")

(* Request s's save left its own new reference in the store, and the       *)
(* store still holds a reference to a meeting created in this run.         *)
StoredBy(s) ==
    LET r == slot[s]
        doc == batches[r.batchId]
    IN  /\ Len(r.created) = 1
        /\ r.persisted = Some([dyte_meeting_id |-> r.created[1],
                               meeting_platform |-> DytePlatform])
        /\ doc.meeting_platform = DytePlatform
        /\ \E i \in 1 .. meetings : ProviderIds[i] = doc.dyte_meeting_id

(* C1: a Join that passed the schedule gate on a class in strict mode      *)
(* (is_strict_schedule not false) without a valid meeting reference has    *)
(* ended in 400 "Instructor has not started the class yet", and it created *)
(* no meeting, saved nothing and was issued no participant.                *)
C1_StrictJoinNeverCreates ==
    \A s \in DOMAIN slot :
        LET r == slot[s] IN
        (PastGate(r) /\ StrictJoin(r)
         /\ (r.loaded[1].dyte_meeting_id = Null
             \/ r.loaded[1].meeting_platform # DytePlatform))
        => /\ r.pc = "done"
           /\ r.response = Some(NotStarted)
           /\ r.created = <<>> /\ ~r.saved /\ r.participant = None

C1_Witness ==
    \E s \in DOMAIN slot :
        /\ PastGate(slot[s]) /\ StrictJoin(slot[s])
        /\ slot[s].loaded[1].is_strict_schedule = "undefined"
        /\ slot[s].loaded[1].dyte_meeting_id = Null
        /\ slot[s].response = Some(NotStarted)

(* C2: the lease step runs in Start, and in Join when strict mode is off   *)
(* (a Join in strict mode is rejected before it, see C1).  When it runs on *)
(* a class whose reference carries a foreign platform tag the handler goes *)
(* on to create a new meeting: past the creation it holds exactly one new  *)
(* identifier, a participant is only issued after the save and for the new *)
(* meeting, once saved the stored reference is a newly created one with    *)
(* the configured tag, and a successful response carries the new           *)
(* identifier.  The stale reference is never kept.                         *)
C2_StaleReferenceReplaced ==
    \A s \in DOMAIN slot :
        LET r == slot[s] IN
        (PastGate(r) /\ StaleRef(r.loaded[1]) /\ ~StrictJoin(r))
        => /\ r.pc \in {"create", "save", "participant", "attendance", "done"}
           /\ r.pc \in {"save", "participant", "attendance"}
                  => Len(r.created) = 1 /\ r.created[1] # r.loaded[1].dyte_meeting_id
           /\ r.participant # None
                  => /\ r.saved /\ Len(r.created) = 1
                     /\ r.participant[1].meeting_id = r.created[1]
           /\ r.saved => StoredBy(s) /\ batches[r.batchId].dyte_meeting_id
                                         # r.loaded[1].dyte_meeting_id
           /\ r.pc = "done"
                  => /\ r.response[1].status \in {200, 500}
                     /\ r.response[1].status = 200
                            => r.response[1].meeting_id = r.created[1]

C2_Witness ==
    \E s \in DOMAIN slot :
        /\ PastGate(slot[s]) /\ StaleRef(slot[s].loaded[1])
        /\ Answered(slot[s], 200)
        /\ batches[slot[s].batchId].dyte_meeting_id = slot[s].created[1]
        /\ batches[slot[s].batchId].meeting_platform = DytePlatform

(* C3: a Join on a non-strict class without a meeting reference creates    *)
(* one meeting; the participant is issued only after the class was saved   *)
(* with the new identifier and the platform tag, and for that meeting; the *)
(* successful response carries that identifier.                            *)
C3_NonStrictJoinCreatesAndPersists ==
    \A s \in DOMAIN slot :
        LET r == slot[s] IN
        (r.op = "join" /\ PastGate(r) /\ r.loaded[1].is_strict_schedule = "false"
         /\ r.loaded[1].dyte_meeting_id = Null)
        => /\ Len(r.created) <= 1
           /\ r.pc \in {"save", "participant", "attendance"} => Len(r.created) = 1
           /\ r.saved => Len(r.created) = 1 /\ StoredBy(s)
           /\ r.participant # None
                  => r.saved /\ r.participant[1].meeting_id = r.created[1]
           /\ r.pc = "done"
                  => /\ r.response[1].status \in {200, 500}
                     /\ r.response[1].status = 200
                            => /\ r.saved /\ r.participant # None
                               /\ r.response[1].meeting_id = r.created[1]
                               /\ r.response[1].authToken = r.participant

C3_Witness ==
    \E s \in DOMAIN slot :
        /\ slot[s].op = "join" /\ PastGate(slot[s])
        /\ slot[s].loaded[1].is_strict_schedule = "false"
        /\ slot[s].loaded[1].dyte_meeting_id = Null
        /\ Answered(slot[s], 200)
        /\ batches[slot[s].batchId].dyte_meeting_id = slot[s].response[1].meeting_id
        /\ meetings = 1

(* C4: the Attendance collection holds exactly one record per Join of a    *)
(* student caller answered with success, each for a student and the class, *)
(* with status present; nothing is deduplicated.                           *)
C4_OneAttendancePerStudentJoin ==
    /\ Len(attendance) = joined
    /\ \A i \in DOMAIN attendance :
         /\ attendance[i].status = "present"
         /\ attendance[i].batch_id \in DOMAIN batches
         /\ \E c \in Callers : c.role = "student" /\ c.id = attendance[i].student_id
    /\ \A s \in DOMAIN slot :
         LET r == slot[s] IN
         (r.op = "join" /\ r.caller # None /\ Answered(r, 200)
          /\ r.caller[1].role = "student")
         => \E i \in DOMAIN attendance :
                /\ attendance[i].student_id = r.caller[1].id
                /\ attendance[i].batch_id = r.batchId

C4_Witness ==
    /\ joined = 2 /\ Len(attendance) = 2
    /\ attendance[1] = attendance[2]

(* C5: the Attendance collection changes only by the step in which a Join  *)
(* of a student caller is answered with success, and then by one record    *)
(* for that caller; no Start, no Join of another role and no rejected or   *)
(* failed Join adds a record.                                              *)
C5_AttendanceOnlyFromStudentJoin ==
    [][attendance' # attendance
       => \E s \in DOMAIN slot :
             /\ slot[s].op = "join" /\ slot[s].pc # "done"
             /\ slot[s].caller[1].role = "student"
             /\ slot'[s].pc = "done" /\ slot'[s].response[1].status = 200
             /\ Len(attendance') = Len(attendance) + 1
             /\ attendance'[Len(attendance')].student_id = slot[s].caller[1].id
             /\ SubSeq(attendance', 1, Len(attendance)) = attendance]_vars

C5_Witness ==
    /\ Len(attendance) = 1
    /\ \E s \in DOMAIN slot : slot[s].op = "start" /\ Answered(slot[s], 200)

(***************************************************************************)
(* Properties of the sweep                                                 *)
(***************************************************************************)
Recorded(id) == \E i \in DOMAIN liveSessions : liveSessions[i].dyte_meeting_id = id
Clean(h) == h.status = 200 /\ h.failedFor = {}
InFlight(w) == sweep[w].pc \notin {"idle", "done", "off"}

(* The sessions of the listings that are ended and last a minute or more,  *)
(* by their identifiers.                                                   *)
LongEnough == {"s61", "s60t", "s0"}
ListedFor(b) == {remote[b.dyte_meeting_id][k].id : k \in DOMAIN remote[b.dyte_meeting_id]}

C8_DiscardRule ==
    /\ \A i \in DOMAIN liveSessions :
           LET rec == liveSessions[i] IN
           /\ rec.duration_seconds >= 60
           /\ rec.duration_minutes * 60 - rec.duration_seconds * 100 \in -30 .. 29
           /\ rec.dyte_meeting_id \notin {"s45", "s59t", "sLive"}
           /\ rec.dyte_meeting_id = "s61"
                  => rec.duration_seconds = 61 /\ rec.duration_minutes = 102
           /\ rec.dyte_meeting_id = "s60t"
                  => rec.duration_seconds = 60 /\ rec.duration_minutes = 100
    /\ \A j \in DOMAIN history :
           Clean(history[j])
           => \A b \in DOMAIN batches :
                  batches[b].dyte_meeting_id # Null
                  => \A id \in ListedFor(batches[b]) \cap {"s61", "s60t"} : Recorded(id)

C8_Witness ==
    /\ \E j \in DOMAIN history : Clean(history[j])
    /\ \E i \in DOMAIN liveSessions :
           liveSessions[i].dyte_meeting_id = "s61" /\ liveSessions[i].duration_minutes = 102
    /\ \E b \in DOMAIN batches :
           batches[b].dyte_meeting_id # Null /\ "s45" \in ListedFor(batches[b])

(* C9: a sweep whose enumeration succeeded answers 200 whatever fails for  *)
(* single classes, with a count equal to the number of Sessions it         *)
(* created, and has stored every eligible session of each class it met no  *)
(* failure for; 500 is the answer only of a sweep that processed no class. *)
C9_Answers ==
    \A j \in DOMAIN history :
        LET h == history[j] IN
        /\ h.status \in {200, 500}
        /\ h.count = Cardinality(h.made)
        /\ \A id \in h.made : Recorded(id)
        /\ h.status = 500 => h.failedFor = {} /\ h.made = {}
        /\ h.status = 200
               => \A b \in DOMAIN batches :
                      (batches[b].dyte_meeting_id # Null /\ b \notin h.failedFor)
                      => \A id \in ListedFor(batches[b]) \cap LongEnough : Recorded(id)

C9_PerClassIsolation ==
    /\ []C9_Answers
    /\ \A w \in SweepIds : InFlight(w) ~> (sweep[w].pc = "done")

(* A sweep met a failure for one class and still stored a session of the   *)
(* other.                                                                  *)
C9_Witness ==
    \E j \in DOMAIN history :
        /\ history[j].status = 200
        /\ history[j].failedFor = {"b1"}
        /\ history[j].count = 1
        /\ batches["b2"].dyte_meeting_id = "m2"

(***************************************************************************)
(* Properties of the schedule gate                                         *)
(***************************************************************************)
NonStrict(doc) == doc.is_strict_schedule = "false"

(* C10: whenever validateClassTime was applied to a class whose            *)
(* is_strict_schedule is false, it returned valid, whatever the status,    *)
(* dates, days, time and clock; and every Start or Join that loaded such a *)
(* class passed the gate and was not answered with a schedule denial.      *)
C10_NonStrictAlwaysAdmitted ==
    /\ (probe # None /\ NonStrict(probe[1].batch)) => probe[1].result = Valid
    /\ \A s \in DOMAIN slot :
         LET r == slot[s] IN
         (r.loaded # None /\ NonStrict(r.loaded[1])) =>
             /\ r.validation = Some(Valid)
             /\ r.pc = "done" => r.response[1].message \notin ScheduleMessages

(* A Start on a completed non-strict class outside its window was          *)
(* answered with success.                                                  *)
C10_Witness ==
    \E s \in DOMAIN slot :
        /\ slot[s].op = "start" /\ Answered(slot[s], 200)
        /\ NonStrict(slot[s].loaded[1])
        /\ slot[s].loaded[1].status = "completed"
        /\ now = Instant(1, At(11, 1))

(* The gate alone admitted a completed non-strict class on a day that is   *)
(* not scheduled and past its end date.                                    *)
GateProbed ==
    /\ probe # None
    /\ NonStrict(probe[1].batch) /\ probe[1].batch.status = "completed"
    /\ probe[1].batch.recurring_days = None
    /\ probe[1].batch.end_date = Some(Instant(0, At(12, 0)))
    /\ probe[1].result = Valid

(* The checks of strict mode, in the words of the calendar: day numbers    *)
(* and seconds after midnight.                                             *)
Strict(doc) == doc.is_strict_schedule # "false"
BeforeStartDay(b, t) == b.start_date # None /\ t.day < b.start_date[1].day
AfterEndDay(b, t) == b.end_date # None /\ t.day > b.end_date[1].day
OffDay(b, t) ==
    b.recurring_days = None \/ DayNames[(t.day % 7) + 1] \notin b.recurring_days[1]
TooEarly(b, t) ==
    b.batch_time # None /\ t.tod < parseTimeOfDay(b.batch_time[1]) - GraceSeconds
TooLate(b, t) == Len(b.batch_time) > 1 /\ t.tod > parseTimeOfDay(b.batch_time[2])

FailingChecks(b, t) ==
    <<b.status = "completed", b.status = "inactive", BeforeStartDay(b, t),
      AfterEndDay(b, t), OffDay(b, t), TooEarly(b, t), TooLate(b, t)>>
CheckMessages ==
    <<"Batch is already completed", "Batch is currently inactive",
      "Batch has not started yet", "Batch has ended",
      "Today is not a scheduled class day", "Class has not started yet",
      "Class is over for today">>

(* C11: for a class in strict mode the evaluator's answer is the denial of *)
(* the first failing check in the order completed, inactive, before the    *)
(* start day, after the end day, off day (absent days fail), too early,    *)
(* too late; a completed class is always denied as completed; and the      *)
(* answer is valid only when no check fails.                               *)
C11_FirstFailingCheck ==
    (probe # None /\ Strict(probe[1].batch)) =>
        LET b == probe[1].batch
            t == probe[1].today
            f == FailingChecks(b, t)
            failing == {i \in 1 .. 7 : f[i]}
        IN  /\ failing = {} <=> probe[1].result = Valid
            /\ failing # {} =>
                   LET first == CHOOSE i \in failing : \A j \in failing : i <= j
                   IN  probe[1].result = Denied(CheckMessages[first])
            /\ b.status = "completed"
                   => probe[1].result = Denied("Batch is already completed")

(* A completed strict class whose start day is still ahead was denied as   *)
(* completed.                                                              *)
C11_Witness ==
    /\ probe # None /\ Strict(probe[1].batch)
    /\ probe[1].batch.status = "completed"
    /\ BeforeStartDay(probe[1].batch, probe[1].today)
    /\ OffDay(probe[1].batch, probe[1].today)
    /\ probe[1].result = Denied("Batch is already completed")

(* C12: for a strict, active class within its date bounds on a scheduled   *)
(* weekday with a start S and an end E, the evaluator admits exactly when  *)
(* S - 15 minutes <= now <= E; with Monday, 10:00 AM-11:00 AM it admits    *)
(* Monday 09:46 and denies Monday 09:44 and Monday 11:01.                  *)
C12_GraceWindow ==
    (probe # None /\ Strict(probe[1].batch)) =>
        LET b == probe[1].batch
            t == probe[1].today
        IN  /\ (/\ b.status = "active" /\ ~BeforeStartDay(b, t) /\ ~AfterEndDay(b, t)
                /\ ~OffDay(b, t) /\ Len(b.batch_time) = 2)
               => (probe[1].result.valid
                     <=> /\ parseTimeOfDay(b.batch_time[1]) - 15 * 60 <= t.tod
                         /\ t.tod <= parseTimeOfDay(b.batch_time[2]))
            /\ (/\ b.status = "active" /\ b.start_date = None /\ b.end_date = None
                /\ b.recurring_days = Some({"Monday"}) /\ b.batch_time = TenToEleven)
               => /\ t = Instant(1, At(9, 46)) => probe[1].result = Valid
                  /\ t = Instant(1, At(9, 44)) => ~probe[1].result.valid
                  /\ t = Instant(1, At(11, 1)) => ~probe[1].result.valid

(* The Monday class was admitted at 09:45 sharp, the first admitted        *)
(* instant.                                                                *)
C12_Witness ==
    /\ probe # None /\ Strict(probe[1].batch)
    /\ probe[1].batch.status = "active"
    /\ probe[1].batch.recurring_days = Some({"Monday"})
    /\ probe[1].batch.batch_time = TenToEleven
    /\ probe[1].today = Instant(1, At(9, 45))
    /\ probe[1].result = Valid

(***************************************************************************)
(* Properties of Start and Join                                            *)
(***************************************************************************)
Privileged == {"tenant", "instructor", "admin", "superadmin"}

(* C13: a Start is answered by the first failing gate in the order missing *)
(* class id (400), role not privileged (403), class not found (404),       *)
(* schedule denial (400 with the evaluator's message); a student never     *)
(* completes a Start, and a successful Start reports role "instructor".    *)
C13_StartGateOrder ==
    \A s \in DOMAIN slot :
        LET r == slot[s] IN
        (r.op = "start" /\ r.pc = "done") =>
            LET resp == r.response[1]
                role == r.caller[1].role
            IN  /\ r.batchId = Null => resp = Reject(400, "Batch ID required")
                /\ (r.batchId # Null /\ role \notin Privileged)
                       => resp = Reject(403, "Not allowed")
                /\ (r.batchId # Null /\ role \in Privileged
                    /\ r.batchId \notin DOMAIN batches)
                       => resp \in {Reject(404, "Batch not found"),
                                    Reject(500, "Failed to start class")}
                /\ resp.status = 404 => r.batchId \notin DOMAIN batches
                /\ (r.loaded # None /\ ~validateClassTime(r.loaded[1], now).valid)
                       => resp = Reject(400, validateClassTime(r.loaded[1], now).message)
                /\ (resp.status = 400 /\ r.batchId # Null)
                       => /\ r.loaded # None
                          /\ ~validateClassTime(r.loaded[1], now).valid
                /\ role = "student" => resp.status \in {400, 403}
                /\ resp.status = 200 => resp.role = "instructor" /\ role \in Privileged

(* A student's Start for a class that is not stored was refused at the     *)
(* role gate, before the lookup; and a superadmin's Start succeeded as     *)
(* "instructor".                                                           *)
C13_Witness ==
    \E s, t \in DOMAIN slot :
        /\ slot[s].op = "start" /\ slot[s].caller = Some([id |-> "u1", role |-> "student"])
        /\ slot[s].batchId = "b9" /\ Answered(slot[s], 403)
        /\ slot[t].op = "start" /\ slot[t].caller[1].role = "superadmin"
        /\ Answered(slot[t], 200) /\ slot[t].response[1].role = "instructor"

(* C14: a Join issues its participant with the host preset exactly when    *)
(* the caller is an instructor or a tenant, and with the participant       *)
(* preset for every other role.                                            *)
C14_JoinPreset ==
    \A s \in DOMAIN slot :
        LET r == slot[s] IN
        (r.op = "join" /\ r.participant # None) =>
            /\ r.participant[1].preset_name \in {"group_call_host", "group_call_participant"}
            /\ r.participant[1].preset_name = "group_call_host"
                   <=> r.caller[1].role \in {"instructor", "tenant"}

(* A superadmin joined as a participant while a tenant joined as host.     *)
C14_Witness ==
    \E s, t \in DOMAIN slot :
        /\ slot[s].op = "join" /\ slot[s].caller[1].role = "superadmin"
        /\ slot[s].participant # None
        /\ slot[s].participant[1].preset_name = "group_call_participant"
        /\ slot[t].op = "join" /\ slot[t].caller[1].role = "tenant"
        /\ slot[t].participant # None
        /\ slot[t].participant[1].preset_name = "group_call_host"

(* A Start past its save has left its stamp and its reference in the       *)
(* store; no Join ever marks the start time modified.                      *)
C15_Stamped ==
    \A s \in DOMAIN slot :
        LET r == slot[s] IN
        /\ (r.op = "start" /\ r.saved)
               => /\ batches[r.batchId].last_class_start_time = Some(now)
                  /\ r.persisted # None
                  /\ r.persisted[1].meeting_platform = DytePlatform
                  /\ r.persisted[1].dyte_meeting_id # Null
        /\ (r.op = "start" /\ Answered(r, 200)) => r.saved
        /\ r.op = "join" => "last_class_start_time" \notin r.dirty

(* C15: last_class_start_time changes only in the save of a Start, which   *)
(* writes the current time and leaves the class with a valid meeting       *)
(* reference, the Start's own when it created one; every Start that        *)
(* completes has made that save; no step of a Join and no step of a sweep  *)
(* changes last_class_start_time.                                          *)
C15_OnlyStartStamps ==
    /\ []C15_Stamped
    /\ [][\A b \in DOMAIN batches :
             batches'[b].last_class_start_time # batches[b].last_class_start_time
             => \E s \in DOMAIN slot :
                    /\ slot[s].op = "start" /\ slot[s].pc = "save"
                    /\ slot'[s].pc = "participant" /\ slot[s].batchId = b
                    /\ batches'[b].last_class_start_time = Some(now)
                    /\ ValidRef(batches'[b])
                    /\ "dyte_meeting_id" \in slot[s].dirty
                           => Reference(batches'[b]) = Reference(slot[s].batch[1])]_vars

(* A non-strict Join created and saved the meeting, then a Start on the    *)
(* same class saved its stamp.                                             *)
C15_Witness ==
    \E s, t \in DOMAIN slot :
        /\ slot[s].op = "join" /\ Answered(slot[s], 200) /\ slot[s].saved
        /\ slot[t].op = "start" /\ slot[t].saved
        /\ slot[t].loaded[1].last_class_start_time = None
        /\ batches[slot[t].batchId].last_class_start_time = Some(now)

NoValidRef(doc) == doc.dyte_meeting_id = Null \/ doc.meeting_platform # DytePlatform

(* Two requests that both read the class without a valid reference and     *)
(* both completed.                                                         *)
Raced(s, t) ==
    /\ s # t
    /\ slot[s].loaded # None /\ NoValidRef(slot[s].loaded[1])
    /\ slot[t].loaded # None /\ NoValidRef(slot[t].loaded[1])
    /\ Answered(slot[s], 200) /\ Answered(slot[t], 200)

C16_RaceOutcome ==
    \A s, t \in DOMAIN slot :
        Raced(s, t) =>
            /\ Len(slot[s].created) = 1 /\ Len(slot[t].created) = 1
            /\ slot[s].created[1] # slot[t].created[1]
            /\ meetings >= 2
            /\ slot[s].response[1].meeting_id = slot[s].created[1]
            /\ slot[t].response[1].meeting_id = slot[t].created[1]
            /\ slot[s].response[1].authToken[1].meeting_id = slot[s].created[1]
            /\ slot[t].response[1].authToken[1].meeting_id = slot[t].created[1]
            /\ batches[slot[s].batchId].dyte_meeting_id
                   \in {slot[s].created[1], slot[t].created[1]}

(* C16: nothing excludes two requests from the lease step: whenever two    *)
(* requests both read the class without a valid reference and both         *)
(* complete, two distinct meetings were created, each caller holds a token *)
(* for its own meeting, and the class keeps one of the two references;     *)
(* every save of a new reference overwrites the stored one, so the last    *)
(* save is the one that remains.                                           *)
C16_LeaseRace ==
    /\ []C16_RaceOutcome
    /\ [][\A s \in DOMAIN slot :
             (slot[s].pc = "save" /\ slot'[s].pc = "participant"
              /\ "dyte_meeting_id" \in slot[s].dirty)
             => Reference(batches'[slot[s].batchId]) = Reference(slot[s].batch[1])]_vars

(* Two Starts raced: two meetings, two tokens for different meetings, and  *)
(* the class holds the reference of the second to save.                    *)
C16_Witness ==
    \E s, t \in DOMAIN slot :
        /\ Raced(s, t)
        /\ slot[s].op = "start" /\ slot[t].op = "start"
        /\ slot[s].created = <<"m1">> /\ slot[t].created = <<"m2">>
        /\ slot[s].response[1].authToken[1].meeting_id = "m1"
        /\ slot[t].response[1].authToken[1].meeting_id = "m2"
        /\ batches["b1"].dyte_meeting_id = "m1"

(* The same race between two Joins under non-strict mode, and between a    *)
(* Join and a Start.                                                       *)
JoinsRaced ==
    \E s, t \in DOMAIN slot :
        /\ Raced(s, t) /\ slot[s].op = "join" /\ slot[t].op = "join"
        /\ slot[s].created # slot[t].created
MixedRaced ==
    \E s, t \in DOMAIN slot :
        /\ Raced(s, t) /\ slot[s].op = "join" /\ slot[t].op = "start"
        /\ slot[s].created # slot[t].created

(* C17: once the stored class holds a reference with the provider's        *)
(* platform tag, no step of a Start, a Join or a sweep clears it or        *)
(* replaces it with another meeting identifier.                            *)
C17_ValidReferenceKept ==
    [][\A b \in DOMAIN batches :
          ValidRef(batches[b]) => Reference(batches'[b]) = Reference(batches[b])]_vars

(* A request that read a valid reference creates nothing and hands out     *)
(* exactly that reference.                                                 *)
C18_Reused ==
    \A s \in DOMAIN slot :
        LET r == slot[s] IN
        (r.loaded # None /\ ValidRef(r.loaded[1])) =>
            /\ r.created = <<>>
            /\ r.pc \notin {"create"}
            /\ r.op = "join" => ~r.saved
            /\ r.participant # None
                   => r.participant[1].meeting_id = r.loaded[1].dyte_meeting_id
            /\ Answered(r, 200)
                   => /\ r.response[1].meeting_id = r.loaded[1].dyte_meeting_id
                      /\ r.response[1].authToken[1].meeting_id = r.loaded[1].dyte_meeting_id

(* Requests one after the other, every save of the class succeeding.       *)
Orderly == DOMAIN slot = {1} /\ lostSaves = 0

C18_AtMostOne ==
    Orderly => /\ meetings <= 1
               /\ \A b \in DOMAIN batches :
                      Reference(batches[b]) = [dyte_meeting_id |-> LegacyId,
                                               meeting_platform |-> DytePlatform]
                      => meetings = 0

(* C18: a Start or Join that read a reference with the provider's tag      *)
(* never creates a meeting and returns that reference; so with requests    *)
(* one after the other and every save succeeding, a meeting is created     *)
(* only while the stored class has no valid reference, at most one in all, *)
(* and none for a class that began with a valid reference.                 *)
C18_LeaseReuse ==
    /\ []C18_Reused
    /\ []C18_AtMostOne
    /\ [][(Orderly /\ meetings' # meetings)
             => \A b \in DOMAIN batches : ~ValidRef(batches[b])]_vars

(* Three requests one after the other on a class that began without a      *)
(* reference: the first created m1, the third reused it.                   *)
C18_Witness ==
    /\ Orderly /\ calls = 3 /\ meetings = 1
    /\ Answered(slot[1], 200)
    /\ slot[1].loaded[1].dyte_meeting_id = "m1" /\ slot[1].created = <<>>
    /\ slot[1].response[1].meeting_id = "m1"

(***************************************************************************)
(* Properties of the sweep's duration                                      *)
(***************************************************************************)
SessionById(id) == CHOOSE x \in SessionPool : x.id = id

(* The duration the provider reported, whatever its value, else the        *)
(* rounded difference of the timestamps.                                   *)
ReportedOrDelta(x) ==
    IF x.duration # None THEN x.duration[1]
    ELSE roundSeconds(x.updated_at - x.created_at)

(* C19: every stored Session carries as duration_seconds the duration the  *)
(* provider reported for it, for every reported value including 0, and     *)
(* the rounded timestamp difference only when none was reported; a session *)
(* whose duration so computed is under 60 seconds is never stored.         *)
C19_DurationAsReported ==
    \A i \in DOMAIN liveSessions :
        LET rec == liveSessions[i]
            x == SessionById(rec.dyte_meeting_id)
        IN  /\ rec.duration_seconds = ReportedOrDelta(x)
            /\ ReportedOrDelta(x) >= 60

(***************************************************************************)
(* Properties of strict mode                                               *)
(***************************************************************************)
(* A Join on a strict class is issued a participant only for a valid       *)
(* reference it read from the store, and creates and saves nothing; a      *)
(* student never creates a meeting for a strict class.                     *)
C20_Joined ==
    \A s \in DOMAIN slot :
        LET r == slot[s] IN
        (r.loaded # None /\ Strict(r.loaded[1])) =>
            /\ (r.op = "join" /\ (r.participant # None \/ Answered(r, 200)))
                   => /\ ValidRef(r.loaded[1])
                      /\ ValidRef(batches[r.batchId])
                      /\ r.created = <<>> /\ ~r.saved
                      /\ r.participant[1].meeting_id = r.loaded[1].dyte_meeting_id
            /\ r.caller[1].role = "student" => r.created = <<>> /\ ~r.saved

(* C20: on a class in strict mode the stored reference changes only in the *)
(* save of a Start by a privileged caller, to the meeting that Start       *)
(* created; a Join is issued a token only for a valid reference already    *)
(* stored; so on a strict class that began without a valid reference no    *)
(* Join succeeds before such a Start has saved, and no student opens it.   *)
C20_StrictOrdering ==
    /\ []C20_Joined
    /\ [][\A b \in DOMAIN batches :
             (Strict(batches[b]) /\ Reference(batches'[b]) # Reference(batches[b]))
             => \E s \in DOMAIN slot :
                    /\ slot[s].op = "start" /\ slot[s].caller[1].role \in Privileged
                    /\ slot[s].batchId = b
                    /\ slot[s].pc = "save" /\ slot'[s].pc = "participant"
                    /\ Len(slot[s].created) = 1
                    /\ Reference(batches'[b]) = [dyte_meeting_id |-> slot[s].created[1],
                                                 meeting_platform |-> DytePlatform]]_vars

(* On a strict class that began without a reference an instructor's Start  *)
(* saved m1 and a student's Join was then admitted to m1.                  *)
C20_Witness ==
    \E s, t \in DOMAIN slot :
        /\ slot[s].op = "start" /\ slot[s].caller[1].role = "instructor"
        /\ slot[s].loaded # None /\ Strict(slot[s].loaded[1])
        /\ slot[s].loaded[1].dyte_meeting_id = Null
        /\ slot[s].saved /\ slot[s].created = <<"m1">>
        /\ slot[t].op = "join" /\ slot[t].caller[1].role = "student"
        /\ Answered(slot[t], 200) /\ slot[t].response[1].meeting_id = "m1"

(***************************************************************************)
(* Properties of rejections and failures                                   *)
(***************************************************************************)
Rejections == {400, 403, 404}

(* A rejected request called the provider for nothing and wrote nothing.   *)
C21_Untouched ==
    \A s \in DOMAIN slot :
        LET r == slot[s] IN
        (r.pc = "done" /\ r.response[1].status \in Rejections) =>
            /\ r.created = <<>>
            /\ ~r.saved /\ r.persisted = None
            /\ r.participant = None
            /\ ~r.attended
            /\ r.response[1].meeting_id = Null /\ r.response[1].authToken = None

(* C21: a Start or Join answered with 400, 403 or 404 has created no       *)
(* meeting, been issued no participant, saved no class and created no      *)
(* Attendance; and the step that sends such an answer leaves the class     *)
(* store, the Attendance collection and the provider as they were.         *)
C21_RejectionsSideEffectFree ==
    /\ []C21_Untouched
    /\ [][\A s \in DOMAIN slot :
             (slot'[s] # slot[s] /\ slot'[s].pc = "done"
              /\ slot'[s].response[1].status \in Rejections)
             => UNCHANGED <<batches, attendance, meetings, participants>>]_vars

(* Three requests were rejected one after the other, the last a Join told  *)
(* that the instructor has not started, and nothing was touched.           *)
C21_Witness ==
    /\ calls >= 3 /\ DOMAIN slot = {1}
    /\ slot[1].pc = "done" /\ slot[1].op = "join"
    /\ slot[1].response[1] = NotStarted
    /\ meetings = 0 /\ participants = 0 /\ attendance = <<>>
    /\ batches["b1"].last_class_start_time = None

(* A Start that saved the class and was then refused its participant.      *)
StartHalfDone(r) ==
    r.op = "start" /\ r.pc = "done" /\ r.saved /\ r.participant = None

(* A Join that was issued its participant and then failed.                 *)
JoinHalfDone(r) ==
    r.op = "join" /\ r.pc = "done" /\ r.participant # None /\ r.response[1].status = 500

C22_Outcome ==
    \A s \in DOMAIN slot :
        LET r == slot[s] IN
        /\ StartHalfDone(r) =>
               /\ r.response[1] = Reject(500, "Failed to start class")
               /\ ValidRef(batches[r.batchId])
               /\ batches[r.batchId].last_class_start_time = Some(now)
               /\ DOMAIN slot = {1} => Reference(batches[r.batchId]) = r.persisted[1]
               /\ \A t \in DOMAIN slot :
                      (slot[t].loaded # None
                       /\ Reference(slot[t].loaded[1]) = r.persisted[1]
                       /\ slot[t].validation = Some(Valid))
                      => /\ slot[t].created = <<>>
                         /\ slot[t].pc = "done" => slot[t].response[1] # NotStarted
                         /\ slot[t].participant # None
                                => slot[t].participant[1].meeting_id
                                       = r.persisted[1].dyte_meeting_id
        /\ JoinHalfDone(r) =>
               /\ r.caller[1].role = "student"
               /\ r.response[1] = Reject(500, "Failed to join class")
               /\ ~r.attended

(* C22: a Start whose participant issuance fails after its save answers    *)
(* 500 "Failed to start class" without a token and that step leaves the    *)
(* class as saved, with a valid reference and the fresh start time; a      *)
(* request that then reads that reference passes the lease test, is never  *)
(* told that the instructor has not started, and creates no meeting; a     *)
(* student's Join whose Attendance write fails answers 500 with no         *)
(* Attendance record although its participant was issued.                  *)
C22_PartialFailure ==
    /\ []C22_Outcome
    /\ [][\A s \in DOMAIN slot :
             /\ (slot[s].pc = "participant" /\ slot[s].op = "start"
                 /\ slot'[s].pc = "done" /\ slot'[s].response[1].status = 500)
                => UNCHANGED <<batches, participants, meetings>>
             /\ (slot[s].pc = "attendance" /\ slot'[s].pc = "done"
                 /\ slot'[s].response[1].status = 500)
                => /\ UNCHANGED <<attendance, batches, joined>>
                   /\ slot'[s].participant # None]_vars

(* On a strict class an instructor's Start saved m1 and was refused its    *)
(* participant; a student's Join after it was admitted to m1.              *)
C22_Witness ==
    \E s, t \in DOMAIN slot :
        /\ StartHalfDone(slot[s]) /\ slot[s].created = <<"m1">>
        /\ Strict(slot[s].loaded[1])
        /\ slot[t].op = "join" /\ slot[t].caller[1].role = "student"
        /\ slot[t].loaded # None /\ slot[t].loaded[1].dyte_meeting_id = "m1"
        /\ Answered(slot[t], 200)
        /\ batches["b1"].last_class_start_time = Some(now)

(* The retried Start reuses the meeting, and a Join fails on Attendance.    *)
StartRetried ==
    \E s, t \in DOMAIN slot :
        /\ StartHalfDone(slot[s]) /\ slot[s].created = <<"m1">>
        /\ slot[t].op = "start" /\ Answered(slot[t], 200)
        /\ slot[t].created = <<>> /\ slot[t].response[1].meeting_id = "m1"
        /\ meetings = 1
AttendanceLost ==
    \E s \in DOMAIN slot :
        /\ JoinHalfDone(slot[s]) /\ participants = 1 /\ attendance = <<>>

====
